---- MODULE Spec2Model ----
(***************************************************************************)
(* Model of the as3_parser front end: the two-slot token cursor of         *)
(* parser.rs, the operator precedence table of operator_precedence.rs and  *)
(* the small pure helpers of ast.rs.                                       *)
(***************************************************************************)
EXTENDS Integers, Sequences, FiniteSets, TLC

(***************************************************************************)
(* Bounds of the model.                                                    *)
(***************************************************************************)
\* Largest number of scans requested from the tokenizer in one behaviour.
MaxScans == 2
\* Largest number of diagnostics collected in the sink in one behaviour.
MaxDiag == 1

(***************************************************************************)
(* Tokens.  A token is a record [kind, text]; text is the spelling carried *)
(* by Token::Identifier and is empty for every other kind.                 *)
(***************************************************************************)
Tok(kind) == [kind |-> kind, text |-> ""]

Identifier(text) == [kind |-> "Identifier", text |-> text]

Eof == Tok("Eof")
Gt == Tok("Gt")
Ge == Tok("Ge")
Assign == Tok("Assign")
RightShift == Tok("RightShift")
RightShiftAssign == Tok("RightShiftAssign")
UnsignedRightShift == Tok("UnsignedRightShift")
UnsignedRightShiftAssign == Tok("UnsignedRightShiftAssign")
Var == Tok("Var")

\* The spellings of identifiers the tokenizer produces in this model.
IdNames == {"get"}

\* The tokens the tokenizer can hand to the parser.
Token == {Eof, Gt, Ge, Assign, RightShift, RightShiftAssign, UnsignedRightShift,
          UnsignedRightShiftAssign, Var} \cup {Identifier(n) : n \in IdNames}

\* The tokens of the XML scanning modes: a tag name and a run of text.
XmlName(text) == [kind |-> "XmlName", text |-> text]

XmlText(text) == [kind |-> "XmlText", text |-> text]

\* The tokens the tokenizer can hand to the parser inside an XML tag and
\* between XML tags.
XmlTagToken == {XmlName("a"), Gt}

XmlContentToken == {XmlText("b"), Eof}

\* Number of source characters a token spans.
TokenWidth(t) ==
    CASE t.kind = "Eof" -> 0
      [] t.kind \in {"Gt", "Assign", "XmlName", "XmlText"} -> 1
      [] t.kind \in {"Ge", "RightShift"} -> 2
      [] t.kind \in {"RightShiftAssign", "UnsignedRightShift", "Identifier", "Var"} -> 3
      [] t.kind = "UnsignedRightShiftAssign" -> 4

\* Token::keyword_name: the identifier-equivalent spelling of a keyword.
NoName == "<none>"

keyword_name(t) == IF t.kind = "Var" THEN "var" ELSE NoName

(***************************************************************************)
(* Locations.                                                              *)
(***************************************************************************)
with_line_and_offset(line, offset) ==
    [line |-> line, first_offset |-> offset, last_offset |-> offset]

(***************************************************************************)
(* Results of the fallible operations.                                     *)
(***************************************************************************)
\* Every result has the same shape: Ok or Err, the value inside Ok, and
\* for Some((id, location)) the identifier and its location.
NoLocation == [line |-> 0, first_offset |-> 0, last_offset |-> 0]

Result(tag, value, id, location) ==
    [tag |-> tag, value |-> value, id |-> id, location |-> location]

Ok == Result("Ok", "()", "", NoLocation)
ParserFailure == Result("Err", "ParserFailure", "", NoLocation)
OkTrue == Result("Ok", "true", "", NoLocation)
OkFalse == Result("Ok", "false", "", NoLocation)
OkNone == Result("Ok", "None", "", NoLocation)

OkSome(id, location) == Result("Ok", "Some", id, location)

(***************************************************************************)
(* The tokenizer, an external collaborator: a scan either fails or returns *)
(* a token that starts at or after the tokenizer's position.               *)
(***************************************************************************)
ScanFailure == [failed |-> TRUE]

ScanToken(tz, t) ==
    [failed |-> FALSE,
     token |-> <<t, [line |-> tz.line, first_offset |-> tz.offset,
                     last_offset |-> tz.offset + TokenWidth(t)]>>]

\* Tokenizer::scan_ie_div(reserved_words): every outcome of one scan.
\* Without reserved_words a keyword is scanned as an identifier, never as
\* a keyword token.
scan_ie_div(tz, reserved_words) ==
    {ScanFailure} \cup
    {ScanToken(tz, t) : t \in {u \in Token : reserved_words \/ keyword_name(u) = NoName}}

\* Tokenizer::scan_ie_xml_tag: every outcome of one scan inside an XML tag.
scan_ie_xml_tag(tz) == {ScanFailure} \cup {ScanToken(tz, t) : t \in XmlTagToken}

\* Tokenizer::scan_ie_xml_content: every outcome of one scan between XML
\* tags.
scan_ie_xml_content(tz) == {ScanFailure} \cup {ScanToken(tz, t) : t \in XmlContentToken}

\* The tokenizer after a scan with outcome sc.
Scanned(tz, sc) ==
    IF sc.failed
    THEN [tz EXCEPT !.scans = @ + 1]
    ELSE [scans |-> tz.scans + 1, line |-> sc.token[2].line,
          offset |-> sc.token[2].last_offset]

(***************************************************************************)
(* The parser.  A parser state p is a record of the fields of Parser plus  *)
(* the diagnostics sink of its source; every operation maps a state and    *)
(* the outcome sc of the scan it may request to a new state and a result.  *)
(***************************************************************************)
Return(p, r) == [parser |-> p, result |-> r]

\* Parser::new
new ==
    [tokenizer |-> [scans |-> 0, line |-> 1, offset |-> 0],
     previous_token |-> <<Eof, with_line_and_offset(1, 0)>>,
     token |-> <<Eof, with_line_and_offset(1, 0)>>,
     diagnostics |-> <<>>]

\* diagnostic_arguments![Token(t)] and diagnostic_arguments![String(s)]
TokenArgument(t) == [type |-> "Token", token |-> t, string |-> ""]

StringArgument(str) == [type |-> "String", token |-> Eof, string |-> str]

\* Diagnostic::new_syntax_error
new_syntax_error(location, kind, arguments) ==
    [severity |-> "syntax-error", location |-> location, kind |-> kind,
     arguments |-> arguments]

\* Parser::add_syntax_error
add_syntax_error(p, location, kind, arguments) ==
    [p EXCEPT !.diagnostics = Append(@, new_syntax_error(location, kind, arguments))]

\* next giving up before it touches previous_token when the scan fails.
next_Atomic(p, reserved_words, sc) ==
    LET p1 == [p EXCEPT !.tokenizer = Scanned(p.tokenizer, sc)]
    IN IF sc.failed
       THEN Return(p1, ParserFailure)
       ELSE Return([p1 EXCEPT !.previous_token = p.token, !.token = sc.token], Ok)

\* Parser::next
next(p, reserved_words, sc) ==
    LET p1 == [p EXCEPT !.previous_token = p.token,
                        !.tokenizer = Scanned(p.tokenizer, sc)]
    IN IF sc.failed
       THEN Return(p1, ParserFailure)
       ELSE Return([p1 EXCEPT !.token = sc.token], Ok)

\* next_ie_xml_tag leaving previous_token as it was.
next_ie_xml_tag_KeepPrevious(p, sc) ==
    LET p1 == [p EXCEPT !.tokenizer = Scanned(p.tokenizer, sc)]
    IN IF sc.failed
       THEN Return(p1, ParserFailure)
       ELSE Return([p1 EXCEPT !.token = sc.token], Ok)

\* Parser::next_ie_xml_tag
next_ie_xml_tag(p, sc) ==
    LET p1 == [p EXCEPT !.previous_token = p.token,
                        !.tokenizer = Scanned(p.tokenizer, sc)]
    IN IF sc.failed
       THEN Return(p1, ParserFailure)
       ELSE Return([p1 EXCEPT !.token = sc.token], Ok)

\* Parser::next_ie_xml_content
next_ie_xml_content(p, sc) ==
    LET p1 == [p EXCEPT !.previous_token = p.token,
                        !.tokenizer = Scanned(p.tokenizer, sc)]
    IN IF sc.failed
       THEN Return(p1, ParserFailure)
       ELSE Return([p1 EXCEPT !.token = sc.token], Ok)

\* consume with its test inverted.
consume_Inverted(p, t, sc) ==
    IF p.token[1] # t
    THEN LET n == next(p, TRUE, sc)
         IN IF n.result = ParserFailure THEN n ELSE Return(n.parser, OkTrue)
    ELSE Return(p, OkFalse)

\* Parser::consume
consume(p, t, sc) ==
    IF p.token[1] = t
    THEN LET n == next(p, TRUE, sc)
         IN IF n.result = ParserFailure THEN n ELSE Return(n.parser, OkTrue)
    ELSE Return(p, OkFalse)

\* expect with the arguments of its diagnostic swapped.
expect_SwappedArguments(p, t, sc) ==
    IF p.token[1] # t
    THEN Return(add_syntax_error(p, p.token[2], "Expected",
                                 <<TokenArgument(p.token[1]), TokenArgument(t)>>),
                ParserFailure)
    ELSE next(p, TRUE, sc)

\* Parser::expect
expect(p, t, sc) ==
    IF p.token[1] # t
    THEN Return(add_syntax_error(p, p.token[2], "Expected",
                                 <<TokenArgument(t), TokenArgument(p.token[1])>>),
                ParserFailure)
    ELSE next(p, TRUE, sc)

\* consume_identifier accepting a keyword whatever reserved_words says.
consume_identifier_AnyKeyword(p, reserved_words, sc) ==
    IF p.token[1].kind = "Identifier"
    THEN LET n == next(p, TRUE, sc)
         IN IF n.result = ParserFailure THEN n
            ELSE Return(n.parser, OkSome(p.token[1].text, p.token[2]))
    ELSE IF keyword_name(p.token[1]) # NoName
    THEN LET n == next(p, TRUE, sc)
         IN IF n.result = ParserFailure THEN n
            ELSE Return(n.parser, OkSome(keyword_name(p.token[1]), p.token[2]))
    ELSE Return(p, OkNone)

\* Parser::consume_identifier
consume_identifier(p, reserved_words, sc) ==
    IF p.token[1].kind = "Identifier"
    THEN LET n == next(p, TRUE, sc)
         IN IF n.result = ParserFailure THEN n
            ELSE Return(n.parser, OkSome(p.token[1].text, p.token[2]))
    ELSE IF reserved_words /\ keyword_name(p.token[1]) # NoName
    THEN LET n == next(p, TRUE, sc)
         IN IF n.result = ParserFailure THEN n
            ELSE Return(n.parser, OkSome(keyword_name(p.token[1]), p.token[2]))
    ELSE Return(p, OkNone)

\* Parser::consume_context_keyword
consume_context_keyword(p, name, sc) ==
    IF p.token[1].kind = "Identifier"
    THEN IF p.token[1].text = name
         THEN LET n == next(p, TRUE, sc)
              IN IF n.result = ParserFailure THEN n ELSE Return(n.parser, OkTrue)
         ELSE Return(p, OkFalse)
    ELSE Return(p, OkFalse)

\* Parser::expect_identifier
expect_identifier(p, reserved_words, sc) ==
    IF p.token[1].kind = "Identifier"
    THEN LET n == next(p, TRUE, sc)
         IN IF n.result = ParserFailure THEN n
            ELSE Return(n.parser, OkSome(p.token[1].text, p.token[2]))
    ELSE IF reserved_words /\ keyword_name(p.token[1]) # NoName
    THEN LET n == next(p, TRUE, sc)
         IN IF n.result = ParserFailure THEN n
            ELSE Return(n.parser, OkSome(keyword_name(p.token[1]), p.token[2]))
    ELSE Return(add_syntax_error(p, p.token[2], "ExpectedIdentifier",
                                 <<TokenArgument(p.token[1])>>),
                ParserFailure)

\* Parser::expect_context_keyword
expect_context_keyword(p, name, sc) ==
    IF p.token[1].kind = "Identifier" /\ p.token[1].text = name
    THEN next(p, TRUE, sc)
    ELSE Return(add_syntax_error(p, p.token[2], "Expected",
                                 <<StringArgument(name), TokenArgument(p.token[1])>>),
                ParserFailure)

\* The split with `>>=` losing its last character instead of its first.
ShiftGt_TrailingChar(t) ==
    CASE t = Ge -> Assign
      [] t = RightShift -> Gt
      [] t = RightShiftAssign -> RightShift
      [] t = UnsignedRightShift -> RightShift
      [] t = UnsignedRightShiftAssign -> RightShiftAssign

\* The in-place split of expect_generics_gt: the token left after the
\* leading `>` of a compound token is shifted off.
ShiftGt(t) ==
    CASE t = Ge -> Assign
      [] t = RightShift -> Gt
      [] t = RightShiftAssign -> Ge
      [] t = UnsignedRightShift -> RightShift
      [] t = UnsignedRightShiftAssign -> RightShiftAssign

\* expect_generics_gt splitting without moving the start offset.
expect_generics_gt_KeepOffset(p, sc) ==
    IF p.token[1] = Gt
    THEN next(p, TRUE, sc)
    ELSE IF p.token[1] \in {Ge, RightShift, RightShiftAssign, UnsignedRightShift,
                            UnsignedRightShiftAssign}
    THEN Return([p EXCEPT !.token[1] = ShiftGt(@)], Ok)
    ELSE expect(p, Gt, sc)

\* expect_generics_gt reporting a lone `>` like any other unexpected token.
expect_generics_gt_NoLoneGt(p, sc) ==
    IF p.token[1] \in {Ge, RightShift, RightShiftAssign, UnsignedRightShift,
                       UnsignedRightShiftAssign}
    THEN Return([p EXCEPT !.token[1] = ShiftGt(@),
                          !.token[2].first_offset = @ + 1], Ok)
    ELSE Return(add_syntax_error(p, p.token[2], "Expected",
                                 <<TokenArgument(Gt), TokenArgument(p.token[1])>>),
                ParserFailure)

\* Parser::expect_generics_gt
expect_generics_gt(p, sc) ==
    IF p.token[1] = Gt
    THEN next(p, TRUE, sc)
    ELSE IF p.token[1] \in {Ge, RightShift, RightShiftAssign, UnsignedRightShift,
                            UnsignedRightShiftAssign}
    THEN Return([p EXCEPT !.token[1] = ShiftGt(@),
                          !.token[2].first_offset = @ + 1], Ok)
    ELSE expect(p, Gt, sc)

\* expect_eof accepting Eof without requesting a token.
expect_eof_NoFetch(p, sc) ==
    IF p.token[1] # Eof THEN expect(p, Eof, sc) ELSE Return(p, Ok)

\* Parser::expect_eof
expect_eof(p, sc) == expect(p, Eof, sc)

(***************************************************************************)
(* operator_precedence.rs: the precedence levels and their ranks.          *)
(***************************************************************************)
None == "None"

OperatorPrecedence ==
    [Postfix |-> 17, Unary |-> 16, Exponentiation |-> 15, Multiplicative |-> 14,
     Additive |-> 13, Shift |-> 12, Relational |-> 11, Equality |-> 10,
     BitwiseAnd |-> 9, BitwiseXor |-> 8, BitwiseOr |-> 7, LogicalAnd |-> 6,
     LogicalOr |-> 5, LogicalXor |-> 4, LogicalOrAndOther |-> 3,
     AssignmentAndOther |-> 2, List |-> 1]

Levels == DOMAIN OperatorPrecedence

\* FromPrimitive::from_u32 as derived for OperatorPrecedence: the level of
\* discriminant n, if there is one.
from_u32(n) ==
    IF \E l \in Levels : OperatorPrecedence[l] = n
    THEN CHOOSE l \in Levels : OperatorPrecedence[l] = n
    ELSE None

\* OperatorPrecedence::add_one.  The arithmetic is u32; the smallest
\* discriminant is 1, so the subtraction never wraps.
add_one(level) == from_u32(OperatorPrecedence[level] - 1)

(***************************************************************************)
(* Precedence climbing (section 4.3 of the specification; the body of the  *)
(* expression parser is not part of the sources).  The input is a chain    *)
(* operand, operator, operand, ...; a tree is an operand leaf or a node    *)
(* [node, op, left, right] with node "Binary" or "Assignment".             *)
(***************************************************************************)
\* The binary operators of the chains and their levels.
OperatorLevel ==
    [Plus |-> "Additive", Minus |-> "Additive", Times |-> "Multiplicative",
     Power |-> "Exponentiation", Assign |-> "AssignmentAndOther"]

Operators == DOMAIN OperatorLevel

\* Assignment and exponentiation are right-associative.
RightAssociative(op) == op \in {"Assign", "Power"}

Leaf(name) == [node |-> "Operand", op |-> "", name |-> name]

Node(op, left, right) ==
    [node |-> IF op = "Assign" THEN "Assignment" ELSE "Binary", op |-> op,
     left |-> left, right |-> right]

ParseFailed == [failed |-> TRUE]

Parsed(tree, pos) == [failed |-> FALSE, tree |-> tree, pos |-> pos]

RECURSIVE parse_expression(_, _, _), parse_operators(_, _, _, _)

\* parse_expression(min_precedence), from position pos of the chain toks.
parse_expression(toks, pos, min_precedence) ==
    parse_operators(toks, Leaf(toks[pos]), pos + 1, min_precedence)

\* The climbing loop: base is the operand built so far.
parse_operators(toks, base, pos, min_precedence) ==
    IF pos > Len(toks)
    THEN Parsed(base, pos)
    ELSE LET op == toks[pos]
             level == OperatorLevel[op]
         IN IF OperatorPrecedence[level] < OperatorPrecedence[min_precedence]
            THEN Parsed(base, pos)
            ELSE LET right_min == IF RightAssociative(op) THEN level ELSE add_one(level)
                 IN IF right_min = None
                    THEN ParseFailed
                    ELSE LET right == parse_expression(toks, pos + 1, right_min)
                         IN IF right.failed
                            THEN ParseFailed
                            ELSE parse_operators(toks, Node(op, base, right.tree),
                                                 right.pos, min_precedence)

(***************************************************************************)
(* ast.rs: QualifiedIdentifier::to_identifier and                          *)
(* FunctionParamKind::may_be_followed_by.                                  *)
(***************************************************************************)
\* IdentifierOrBrackets::Id(id, location) and ::Brackets(expression)
Id(id, location) == [variant |-> "Id", id |-> id, location |-> location]

Brackets(expression) ==
    [variant |-> "Brackets", id |-> expression, location |-> NoLocation]

\* to_identifier without the test for the wildcard.
to_identifier_Wildcard(qid) ==
    IF qid.attribute \/ qid.qualifier # None
    THEN OkNone
    ELSE IF qid.name.variant = "Id"
         THEN OkSome(qid.name.id, qid.name.location)
         ELSE OkNone

\* QualifiedIdentifier::to_identifier
to_identifier(qid) ==
    IF qid.attribute \/ qid.qualifier # None
    THEN OkNone
    ELSE IF qid.name.variant = "Id"
         THEN IF qid.name.id # "*"
              THEN OkSome(qid.name.id, qid.name.location)
              ELSE OkNone
         ELSE OkNone

\* The discriminants of FunctionParamKind.
FunctionParamKind == [Required |-> 1, Optional |-> 2, Rest |-> 3]

\* may_be_followed_by with a strict comparison.
may_be_followed_by_Strict(self, other) == FunctionParamKind[self] < FunctionParamKind[other]

\* FunctionParamKind::may_be_followed_by
may_be_followed_by(self, other) == FunctionParamKind[self] <= FunctionParamKind[other]

(***************************************************************************)
(* The parser as a state machine: its callers apply the cursor operations  *)
(* in any order.  Besides the parser, the state keeps a record of the      *)
(* latest call and three histories the properties are stated with:         *)
(*   call    the latest operation: its name, its argument, the token it    *)
(*           faced, what its scan did ("none" when it requested none) and  *)
(*           its result;                                                   *)
(*   splits  the number of in-place splits the current token has           *)
(*           undergone since it was scanned;                               *)
(*   gt_run  the run of successive expect_generics_gt calls that started   *)
(*           on an unsplit token made of n `>` characters: n, the number k *)
(*           of calls so far, the token's start offset, the number of      *)
(*           scans and of diagnostics when the run started, and whether    *)
(*           every call of the run succeeded;                              *)
(*   tally   the number of calls that returned parse failure and the       *)
(*           number of scans that failed.                                  *)
(* input and output hold the argument and the result of one application of *)
(* a pure function (SpecFn below) and stay idle while the cursor runs.     *)
(***************************************************************************)
VARIABLES tokenizer, previous_token, token, diagnostics, call, splits, gt_run, tally,
          input, output

vars == <<tokenizer, previous_token, token, diagnostics, call, splits, gt_run, tally,
          input, output>>

cursor_vars == <<tokenizer, previous_token, token, diagnostics, call, splits, gt_run, tally>>

Parser ==
    [tokenizer |-> tokenizer, previous_token |-> previous_token,
     token |-> token, diagnostics |-> diagnostics]

\* The tokens and spellings the callers pass to the cursor operations.
TokenArgs == {Gt, Identifier("get")}

NameArgs == {"get", "set"}

\* The argument of a call: a token, a spelling or the reserved_words flag.
Arg(t, name, reserved_words) ==
    [token |-> t, name |-> name, reserved_words |-> reserved_words]

NoArg == Arg(Eof, "", FALSE)

TokenArg(t) == Arg(t, "", FALSE)

NameArg(name) == Arg(Eof, name, FALSE)

FlagArg(reserved_words) == Arg(Eof, "", reserved_words)

\* The tokens made of `>` characters only, and how many each holds.
AllGt == {Gt, RightShift, UnsignedRightShift}

GtCount(t) ==
    CASE t = Gt -> 1
      [] t = RightShift -> 2
      [] t = UnsignedRightShift -> 3

NoRun == [n |-> 0, k |-> 0, first_offset |-> 0, scans |-> 0, diags |-> 0, ok |-> TRUE]

Idle == [fn |-> "idle"]

InitCursor ==
    /\ tokenizer = new.tokenizer
    /\ previous_token = new.previous_token
    /\ token = new.token
    /\ diagnostics = new.diagnostics
    /\ call = [op |-> "new", arg |-> NoArg, on |-> Eof, scan |-> "none", result |-> Ok]
    /\ splits = 0
    /\ gt_run = NoRun
    /\ tally = [failures |-> 0, scan_failures |-> 0]

Init ==
    /\ InitCursor
    /\ input = Idle
    /\ output = Idle

\* One call of an operation with scan outcome sc and outcome r, within the
\* bounds of the model.
Apply(op, arg, sc, r) ==
    LET scanned == r.parser.tokenizer.scans # tokenizer.scans
        scan == IF ~scanned THEN "none" ELSE IF sc.failed THEN "failed" ELSE "ok"
    IN
    /\ tokenizer.scans < MaxScans
    /\ Len(diagnostics) < MaxDiag
    /\ tokenizer' = r.parser.tokenizer
    /\ previous_token' = r.parser.previous_token
    /\ token' = r.parser.token
    /\ diagnostics' = r.parser.diagnostics
    /\ call' = [op |-> op, arg |-> arg, on |-> token[1], scan |-> scan,
                result |-> r.result]
    /\ splits' = IF scan = "ok" THEN 0
                 ELSE IF r.parser.token # token THEN splits + 1
                 ELSE splits
    /\ gt_run' = IF op = "expect_generics_gt" /\ token[1] \in AllGt
                 THEN IF splits = 0
                      THEN [n |-> GtCount(token[1]), k |-> 1,
                            first_offset |-> token[2].first_offset,
                            scans |-> tokenizer.scans, diags |-> Len(diagnostics),
                            ok |-> r.result = Ok]
                      ELSE IF 0 < gt_run.k /\ gt_run.k < gt_run.n
                      THEN [gt_run EXCEPT !.k = @ + 1, !.ok = @ /\ r.result = Ok]
                      ELSE NoRun
                 ELSE NoRun
    /\ tally' = [failures |-> tally.failures + (IF r.result = ParserFailure THEN 1 ELSE 0),
                 scan_failures |-> tally.scan_failures + (IF scan = "failed" THEN 1 ELSE 0)]
    /\ UNCHANGED <<input, output>>

\* The outcomes of the scan a call requests: every outcome of a default
\* scan if the call requests one (r0 is the call's outcome under a failing
\* scan), and nothing to choose otherwise.
ScanOutcomes(r0) ==
    IF r0.parser.tokenizer.scans = tokenizer.scans
    THEN {ScanFailure}
    ELSE scan_ie_div(tokenizer, TRUE)

Advance ==
    \E sc \in ScanOutcomes(next(Parser, TRUE, ScanFailure)) :
        Apply("next", NoArg, sc, next(Parser, TRUE, sc))

AdvanceXmlTag ==
    \E sc \in scan_ie_xml_tag(tokenizer) :
        Apply("next_ie_xml_tag", NoArg, sc, next_ie_xml_tag(Parser, sc))

AdvanceXmlContent ==
    \E sc \in scan_ie_xml_content(tokenizer) :
        Apply("next_ie_xml_content", NoArg, sc, next_ie_xml_content(Parser, sc))

Consume ==
    \E t \in TokenArgs :
        \E sc \in ScanOutcomes(consume(Parser, t, ScanFailure)) :
            Apply("consume", TokenArg(t), sc, consume(Parser, t, sc))

ConsumeIdentifier ==
    \E reserved_words \in BOOLEAN :
        \E sc \in ScanOutcomes(consume_identifier(Parser, reserved_words, ScanFailure)) :
            Apply("consume_identifier", FlagArg(reserved_words), sc,
                  consume_identifier(Parser, reserved_words, sc))

ConsumeContextKeyword ==
    \E name \in NameArgs :
        \E sc \in ScanOutcomes(consume_context_keyword(Parser, name, ScanFailure)) :
            Apply("consume_context_keyword", NameArg(name), sc,
                  consume_context_keyword(Parser, name, sc))

Expect ==
    \E t \in TokenArgs :
        \E sc \in ScanOutcomes(expect(Parser, t, ScanFailure)) :
            Apply("expect", TokenArg(t), sc, expect(Parser, t, sc))

ExpectIdentifier ==
    \E reserved_words \in BOOLEAN :
        \E sc \in ScanOutcomes(expect_identifier(Parser, reserved_words, ScanFailure)) :
            Apply("expect_identifier", FlagArg(reserved_words), sc,
                  expect_identifier(Parser, reserved_words, sc))

ExpectContextKeyword ==
    \E name \in NameArgs :
        \E sc \in ScanOutcomes(expect_context_keyword(Parser, name, ScanFailure)) :
            Apply("expect_context_keyword", NameArg(name), sc,
                  expect_context_keyword(Parser, name, sc))

ExpectGenericsGt ==
    \E sc \in ScanOutcomes(expect_generics_gt(Parser, ScanFailure)) :
        Apply("expect_generics_gt", NoArg, sc, expect_generics_gt(Parser, sc))

ExpectEof ==
    \E sc \in ScanOutcomes(expect_eof(Parser, ScanFailure)) :
        Apply("expect_eof", NoArg, sc, expect_eof(Parser, sc))

Next ==
    \/ Advance
    \/ AdvanceXmlTag
    \/ AdvanceXmlContent
    \/ Consume
    \/ ConsumeIdentifier
    \/ ConsumeContextKeyword
    \/ Expect
    \/ ExpectIdentifier
    \/ ExpectContextKeyword
    \/ ExpectGenericsGt
    \/ ExpectEof

Spec == Init /\ [][Next]_vars

(***************************************************************************)
(* The pure functions as a state machine: the initial state draws one      *)
(* argument from the bounded sets below and the one step applies the       *)
(* function to it.                                                         *)
(***************************************************************************)
\* Largest number of operators in a chain, and of parameters in a list.
MaxOps == 3
MaxParams == 4

\* The chains operand, operator, ..., operand with n operators; the
\* operands are named after their position.
OperandName == <<"a", "b", "c", "d", "e">>

Chain(ops) ==
    [i \in 1..(2 * Len(ops) + 1) |->
        IF i % 2 = 1 THEN OperandName[(i + 1) \div 2] ELSE ops[i \div 2]]

Chains == UNION {{Chain(ops) : ops \in [1..n -> Operators]} : n \in 0..MaxOps}

\* The levels an expression is parsed at by its callers.
MinPrecedences == {"List", "AssignmentAndOther", "Additive", "Exponentiation"}

QualifiedIdentifiers ==
    [attribute : BOOLEAN,
     qualifier : {None, "ns"},
     name : {Id(id, with_line_and_offset(1, offset)) : id \in {"x", "*"}, offset \in {0, 4}}
            \cup {Brackets("expr")}]

ParamKinds == DOMAIN FunctionParamKind

ParamLists == UNION {[1..n -> ParamKinds] : n \in 0..MaxParams}

FnInput(fn, level, toks, qid, params) ==
    [fn |-> fn, level |-> level, toks |-> toks, qid |-> qid, params |-> params]

NoQid == [attribute |-> FALSE, qualifier |-> None, name |-> Brackets("")]

Inputs ==
    {FnInput("add_one", l, <<>>, NoQid, <<>>) : l \in Levels}
    \cup {FnInput("parse_expression", m, c, NoQid, <<>>) : m \in MinPrecedences, c \in Chains}
    \cup {FnInput("to_identifier", "List", <<>>, q, <<>>) : q \in QualifiedIdentifiers}
    \cup {FnInput("may_be_followed_by", "List", <<>>, NoQid, ps) : ps \in ParamLists}

InitFn ==
    /\ InitCursor
    /\ input \in Inputs
    /\ output = Idle

Return_(fn, value) ==
    /\ input.fn = fn
    /\ output = Idle
    /\ output' = [fn |-> fn, value |-> value]
    /\ UNCHANGED <<input, cursor_vars>>

AddOne == Return_("add_one", add_one(input.level))

ParseExpression ==
    Return_("parse_expression", parse_expression(input.toks, 1, input.level))

ToIdentifier == Return_("to_identifier", to_identifier(input.qid))

\* The check of a parameter list: one verdict per adjacent pair.
MayBeFollowedBy ==
    Return_("may_be_followed_by",
            [i \in 1..(Len(input.params) - 1) |->
                may_be_followed_by(input.params[i], input.params[i + 1])])

NextFn ==
    \/ AddOne
    \/ ParseExpression
    \/ ToIdentifier
    \/ MayBeFollowedBy

SpecFn == InitFn /\ [][NextFn]_vars

(***************************************************************************)
(* Vocabulary of the properties.                                           *)
(***************************************************************************)
\* The step is a call of the operation op.
Called(op) == call'.op = op

\* The two cursor slots and the tokenizer are as before the step.
CursorUnchanged == UNCHANGED <<tokenizer, previous_token, token>>

\* The step moved the cursor by one token: previous holds the old current
\* token and current a token scanned at the tokenizer's old position.
Advanced ==
    /\ call'.scan = "ok"
    /\ previous_token' = token
    /\ \E sc \in scan_ie_div(tokenizer, TRUE) :
          ~sc.failed /\ token' = sc.token /\ tokenizer' = Scanned(tokenizer, sc)

\* The step is an advance whose scan failed: previous holds the old current
\* token, current is kept, and the call returned parse failure.
AdvanceFailed ==
    /\ call'.scan = "failed"
    /\ call'.result = ParserFailure
    /\ previous_token' = token
    /\ token' = token
    /\ tokenizer' = Scanned(tokenizer, ScanFailure)

\* The step appended exactly the one syntax error d to the sink.
Reported(d) == diagnostics' = Append(diagnostics, d)

\* The compound tokens that start with `>`.
GtCompound == {Ge, RightShift, RightShiftAssign, UnsignedRightShift,
               UnsignedRightShiftAssign}

(***************************************************************************)
(* C1: expect_generics_gt facing `>=`, `>>`, `>>=`, `>>>` or `>>>=`        *)
(* succeeds, replaces the current token by what is left after one leading  *)
(* `>` (`>=` -> Assign, `>>` -> Gt, `>>=` -> Ge, `>>>` -> RightShift,      *)
(* `>>>=` -> RightShiftAssign), raises its first_offset by exactly 1 and   *)
(* changes nothing else: no scan is requested, and previous, the token's   *)
(* last_offset and line, and the diagnostics are unchanged.                *)
(***************************************************************************)
C1_Remainder ==
    [k \in {t.kind : t \in GtCompound} |->
        CASE k = "Ge" -> "Assign"
          [] k = "RightShift" -> "Gt"
          [] k = "RightShiftAssign" -> "Ge"
          [] k = "UnsignedRightShift" -> "RightShift"
          [] k = "UnsignedRightShiftAssign" -> "RightShiftAssign"]

C1_SplitInPlace ==
    [][Called("expect_generics_gt") /\ token[1] \in GtCompound =>
        /\ call'.result = Ok
        /\ call'.scan = "none"
        /\ token'[1] = Tok(C1_Remainder[token[1].kind])
        /\ token'[2].first_offset = token[2].first_offset + 1
        /\ token'[2].last_offset = token[2].last_offset
        /\ token'[2].line = token[2].line
        /\ UNCHANGED <<tokenizer, previous_token, diagnostics>>]_vars

C1_Witness ==
    /\ call.op = "expect_generics_gt"
    /\ call.on = UnsignedRightShiftAssign
    /\ call.result = Ok
    /\ token[1] = RightShiftAssign

(***************************************************************************)
(* C2 as claimed: on an unsplit token made of n `>` characters, n          *)
(* successive expect_generics_gt calls all succeed with no diagnostic; the *)
(* first n-1 split in place (start offset +1 each, no scan) and the n-th   *)
(* advances, so exactly one scan is requested in total and afterwards      *)
(* previous is Gt starting at the original start offset + (n-1).           *)
(***************************************************************************)
C2_RunInProgress ==
    0 < gt_run.k /\ gt_run.k < gt_run.n =>
        /\ gt_run.ok
        /\ Len(diagnostics) = gt_run.diags
        /\ tokenizer.scans = gt_run.scans
        /\ token[1] \in AllGt
        /\ GtCount(token[1]) = gt_run.n - gt_run.k
        /\ token[2].first_offset = gt_run.first_offset + gt_run.k

C2_RunClosed ==
    0 < gt_run.k /\ gt_run.k = gt_run.n =>
        /\ Len(diagnostics) = gt_run.diags
        /\ tokenizer.scans = gt_run.scans + 1
        /\ previous_token[1] = Gt
        /\ previous_token[2].first_offset = gt_run.first_offset + (gt_run.n - 1)

C2_AllSucceed ==
    /\ C2_RunInProgress
    /\ C2_RunClosed
    /\ (0 < gt_run.k /\ gt_run.k = gt_run.n => gt_run.ok)

(***************************************************************************)
(* C2 as amended: the first n-1 calls succeed and split in place; the n-th *)
(* call requests exactly one scan and succeeds exactly when that scan      *)
(* succeeds; in both cases no diagnostic is written and afterwards         *)
(* previous is Gt starting at the original start offset + (n-1).           *)
(***************************************************************************)
C2_NestedClose ==
    /\ C2_RunInProgress
    /\ C2_RunClosed
    /\ (0 < gt_run.k /\ gt_run.k = gt_run.n =>
            /\ call.scan # "none"
            /\ gt_run.ok <=> call.scan = "ok")

C2_Witness ==
    /\ gt_run.n = 3
    /\ gt_run.k = 3
    /\ gt_run.ok
    /\ call.op = "expect_generics_gt"

(***************************************************************************)
(* C3: expect_generics_gt facing a lone `>` is exactly the advance step    *)
(* (previous := `>`, current := the token of a default scan); facing a     *)
(* token that does not start with `>` it returns parse failure, records    *)
(* exactly one Expected diagnostic with arguments (Gt, actual token) at    *)
(* the current token's location, and leaves both cursor slots unchanged.   *)
(***************************************************************************)
C3_LoneGtOrFailure ==
    [][Called("expect_generics_gt") /\ token[1] \notin GtCompound =>
        IF token[1] = Gt
        THEN /\ \/ Advanced /\ call'.result = Ok /\ previous_token'[1] = Gt
                \/ AdvanceFailed
             /\ \E sc \in scan_ie_div(tokenizer, TRUE) :
                   /\ call'.result = next(Parser, TRUE, sc).result
                   /\ Parser' = next(Parser, TRUE, sc).parser
        ELSE /\ call'.result = ParserFailure
             /\ Reported(new_syntax_error(token[2], "Expected",
                            <<TokenArgument(Gt), TokenArgument(token[1])>>))
             /\ CursorUnchanged]_vars

C3_Witness ==
    /\ call.op = "expect_generics_gt"
    /\ call.on = Identifier("get")
    /\ call.result = ParserFailure
    /\ Len(diagnostics) = 1

(***************************************************************************)
(* C4 as claimed: consume(expected) advances the cursor by one token and   *)
(* returns true if the current token equals expected; otherwise it returns *)
(* false with previous, current and the tokenizer unchanged.  Either way   *)
(* it adds no diagnostic.                                                  *)
(***************************************************************************)
C4_ConsumeTrueOrFalse ==
    [][Called("consume") =>
        /\ UNCHANGED diagnostics
        /\ IF token[1] = call'.arg.token
           THEN Advanced /\ call'.result = OkTrue
           ELSE CursorUnchanged /\ call'.scan = "none" /\ call'.result = OkFalse]_vars

(***************************************************************************)
(* C4 as amended: when the current token equals expected, consume takes    *)
(* the advance step: if the scan succeeds the cursor advances by one token *)
(* and the result is true, and if the scan fails the result is parse       *)
(* failure; otherwise the result is false with previous, current and the   *)
(* tokenizer unchanged.  In every case consume adds no diagnostic.         *)
(***************************************************************************)
C4_Consume ==
    [][Called("consume") =>
        /\ UNCHANGED diagnostics
        /\ IF token[1] = call'.arg.token
           THEN \/ Advanced /\ call'.result = OkTrue
                \/ AdvanceFailed
           ELSE CursorUnchanged /\ call'.scan = "none" /\ call'.result = OkFalse]_vars

C4_Witness ==
    /\ call.op = "consume"
    /\ call.on = Gt
    /\ call.arg = TokenArg(Gt)
    /\ call.result = OkTrue
    /\ previous_token[1] = Gt

(***************************************************************************)
(* C5: expect(expected) takes the advance step and writes no diagnostic if *)
(* the current token equals expected; otherwise it returns parse failure,  *)
(* appends exactly one syntax error of kind Expected with arguments        *)
(* (expected, current token) at the current token's location and leaves    *)
(* previous, current and the tokenizer unchanged.  As long as no scan has  *)
(* failed, the sink holds as many diagnostics as calls returned parse      *)
(* failure.                                                                *)
(***************************************************************************)
C5_ExpectStep ==
    Called("expect") =>
        IF token[1] = call'.arg.token
        THEN /\ UNCHANGED diagnostics
             /\ \/ Advanced /\ call'.result = Ok
                \/ AdvanceFailed
        ELSE /\ call'.result = ParserFailure
             /\ call'.scan = "none"
             /\ Reported(new_syntax_error(token[2], "Expected",
                            <<TokenArgument(call'.arg.token), TokenArgument(token[1])>>))
             /\ CursorUnchanged

C6_NextTighter ==
    /\ Cardinality(Levels) = 17
    /\ {OperatorPrecedence[l] : l \in Levels} = 1..17
    /\ OperatorPrecedence["List"] = 1
    /\ OperatorPrecedence["Postfix"] = 17
    /\ output.fn = "add_one" =>
          IF OperatorPrecedence[input.level] < 17
          THEN /\ output.value \in Levels
               /\ OperatorPrecedence[output.value] = OperatorPrecedence[input.level] + 1
          ELSE output.value = None

(***************************************************************************)
(* C7 as claimed: parsing a chain at min_precedence consumes it up to the  *)
(* first operator whose level is below min_precedence and yields the tree  *)
(* of the consumed tokens in which a tighter operator nests below a looser *)
(* one, operators of one left-associative level nest on the left, and      *)
(* exponentiation and assignment nest on the right.                        *)
(***************************************************************************)
Rank(op) == OperatorPrecedence[OperatorLevel[op]]

RECURSIVE Yield(_)

\* The tokens of a tree, left to right.
Yield(tree) ==
    IF tree.node = "Operand"
    THEN <<tree.name>>
    ELSE Yield(tree.left) \o <<tree.op>> \o Yield(tree.right)

RECURSIVE WellShaped(_)

\* Every operand of an operator binds tighter than the operator, or as
\* tight on the side its associativity allows.
WellShaped(tree) ==
    \/ tree.node = "Operand"
    \/ /\ tree.node = IF tree.op = "Assign" THEN "Assignment" ELSE "Binary"
       /\ WellShaped(tree.left)
       /\ WellShaped(tree.right)
       /\ \/ tree.left.node = "Operand"
          \/ Rank(tree.left.op) > Rank(tree.op)
          \/ Rank(tree.left.op) = Rank(tree.op) /\ ~RightAssociative(tree.op)
       /\ \/ tree.right.node = "Operand"
          \/ Rank(tree.right.op) > Rank(tree.op)
          \/ Rank(tree.right.op) = Rank(tree.op) /\ RightAssociative(tree.op)

C7_TreeShapes ==
    output.fn = "parse_expression" =>
        LET toks == input.toks
            min == OperatorPrecedence[input.level]
            r == output.value
        IN /\ ~r.failed
           /\ Yield(r.tree) = SubSeq(toks, 1, r.pos - 1)
           /\ WellShaped(r.tree)
           /\ \A i \in 1..(r.pos - 1) : i % 2 = 0 => Rank(toks[i]) >= min
           /\ r.pos <= Len(toks) => Rank(toks[r.pos]) < min

(***************************************************************************)
(* C8: to_identifier returns Some((name, location)) exactly when attribute *)
(* is false, there is no qualifier, the name is a static identifier and    *)
(* its text is not "*"; the name and location returned are those stored in *)
(* the name.  In every other case it returns None.                         *)
(***************************************************************************)
C8_ToIdentifier ==
    output.fn = "to_identifier" =>
        LET qid == input.qid
            plain == /\ qid.attribute = FALSE
                     /\ qid.qualifier = None
                     /\ qid.name.variant = "Id"
                     /\ qid.name.id # "*"
        IN /\ plain <=> output.value.value = "Some"
           /\ plain => /\ output.value.id = qid.name.id
                       /\ output.value.location = qid.name.location
           /\ ~plain => output.value = OkNone

C8_Witness ==
    /\ output.fn = "to_identifier"
    /\ output.value = OkSome("x", with_line_and_offset(1, 4))
    /\ input.qid.name.variant = "Id"

(***************************************************************************)
(* C9: a.may_be_followed_by(b) is false exactly for (Optional, Required),  *)
(* (Rest, Required) and (Rest, Optional).  So a parameter list whose every *)
(* adjacent pair passes has its required parameters before its optional    *)
(* ones before its rest ones, and a list with a required parameter after   *)
(* an optional or rest one has an adjacent pair that is rejected.          *)
(***************************************************************************)
C9_Rejected == {<<"Optional", "Required">>, <<"Rest", "Required">>, <<"Rest", "Optional">>}

C9_ParamOrder ==
    output.fn = "may_be_followed_by" =>
        LET ps == input.params
            verdict == output.value
            accepted == \A i \in DOMAIN verdict : verdict[i]
        IN /\ \A i \in DOMAIN verdict : verdict[i] <=> <<ps[i], ps[i + 1]>> \notin C9_Rejected
           /\ accepted =>
                \A i, j \in DOMAIN ps : i < j => <<ps[i], ps[j]>> \notin C9_Rejected
           /\ (\E i, j \in DOMAIN ps :
                  i < j /\ ps[i] \in {"Optional", "Rest"} /\ ps[j] = "Required")
                => ~accepted

C9_Witness ==
    /\ output.fn = "may_be_followed_by"
    /\ input.params = <<"Required", "Optional", "Optional", "Rest">>
    /\ output.value = <<TRUE, TRUE, TRUE>>

(***************************************************************************)
(* C10 as claimed: expect_context_keyword(name) takes the advance step     *)
(* exactly when the current token is an identifier spelled name; otherwise *)
(* it returns parse failure, leaves the cursor unchanged and records       *)
(* exactly one diagnostic of kind ExpectedKeyword with the wanted spelling *)
(* and the actual token.  consume_context_keyword(name) matches under the  *)
(* same condition and otherwise returns false with no diagnostic and the   *)
(* cursor unchanged.                                                       *)
(***************************************************************************)
C10_ContextKeyword ==
    [][/\ Called("expect_context_keyword") =>
            IF token[1] = Identifier(call'.arg.name)
            THEN /\ UNCHANGED diagnostics
                 /\ \/ Advanced /\ call'.result = Ok
                    \/ AdvanceFailed
            ELSE /\ call'.result = ParserFailure
                 /\ Reported(new_syntax_error(token[2], "ExpectedKeyword",
                                <<StringArgument(call'.arg.name), TokenArgument(token[1])>>))
                 /\ CursorUnchanged
       /\ Called("consume_context_keyword") =>
            /\ UNCHANGED diagnostics
            /\ IF token[1] = Identifier(call'.arg.name)
               THEN \/ Advanced /\ call'.result = OkTrue
                    \/ AdvanceFailed
               ELSE CursorUnchanged /\ call'.result = OkFalse]_vars

(***************************************************************************)
(* C11 as claimed: consume_identifier(reserved_words) and                  *)
(* expect_identifier(reserved_words) accept the current token exactly when *)
(* it is a lexical identifier, or reserved_words is true and it is a       *)
(* keyword with an identifier-equivalent spelling (so never a keyword when *)
(* reserved_words is false); on acceptance they advance the cursor by one  *)
(* token and return the token's text with the location it had before the   *)
(* advance.  Otherwise the cursor is untouched: consume_identifier returns *)
(* none with no diagnostic, expect_identifier returns parse failure with   *)
(* exactly one ExpectedIdentifier diagnostic carrying the actual token.    *)
(***************************************************************************)
\* The step is a call of one of the two identifier primitives.
C11_Called == Called("consume_identifier") \/ Called("expect_identifier")

\* The token the call faces is one the claim says is accepted.
C11_Accepts ==
    \/ token[1].kind = "Identifier"
    \/ call'.arg.reserved_words /\ token[1].kind = "Var"

\* The spelling the claim says is returned for the token the call faces.
C11_Text == IF token[1].kind = "Var" THEN "var" ELSE token[1].text

\* The outcome of a call facing a token that is not accepted.
C11_NotAccepted ==
    /\ CursorUnchanged
    /\ call'.scan = "none"
    /\ IF Called("consume_identifier")
       THEN call'.result = OkNone /\ UNCHANGED diagnostics
       ELSE /\ call'.result = ParserFailure
            /\ Reported(new_syntax_error(token[2], "ExpectedIdentifier",
                           <<TokenArgument(token[1])>>))

C11_IdentifierReturned ==
    [][C11_Called =>
        /\ call'.result.value = "Some" <=> C11_Accepts
        /\ IF C11_Accepts
           THEN /\ Advanced
                /\ call'.result = OkSome(C11_Text, token[2])
                /\ UNCHANGED diagnostics
           ELSE C11_NotAccepted]_vars

(***************************************************************************)
(* C11 as amended: a call facing an accepted token takes the advance step  *)
(* and writes no diagnostic: if the scan succeeds the cursor advances by   *)
(* one token and the result is the token's text with the location it had   *)
(* before the advance, and if the scan fails the result is parse failure.  *)
(* So the text is returned only for an accepted token, and a keyword is    *)
(* never accepted when reserved_words is false.  A call facing any other   *)
(* token leaves the cursor untouched: consume_identifier returns none with *)
(* no diagnostic, expect_identifier returns parse failure with exactly one *)
(* ExpectedIdentifier diagnostic carrying the actual token.                *)
(***************************************************************************)
C11_Identifier ==
    [][C11_Called =>
        /\ call'.result.value = "Some" => C11_Accepts
        /\ IF C11_Accepts
           THEN /\ UNCHANGED diagnostics
                /\ \/ Advanced /\ call'.result = OkSome(C11_Text, token[2])
                   \/ AdvanceFailed
           ELSE C11_NotAccepted]_vars

C11_Witness ==
    /\ call.op = "expect_identifier"
    /\ call.on = Var
    /\ call.arg = FlagArg(TRUE)
    /\ call.result = OkSome("var", previous_token[2])
    /\ previous_token[1] = Var

(***************************************************************************)
(* C12: every successful advance, in the default, XML tag or XML content   *)
(* scanning mode, sets previous to exactly the (token, location) pair that *)
(* current held before the step and current to a token returned by the     *)
(* tokenizer operation of that mode at the tokenizer's old position; a     *)
(* step that requests no scan leaves previous as it was.  Hence previous   *)
(* is always the pair current held just before the latest advance, a token *)
(* rewritten by generics splitting included.                               *)
(***************************************************************************)
\* The outcomes of the tokenizer operation of the mode the step scans in.
C12_ModeScans ==
    CASE Called("next_ie_xml_tag") -> scan_ie_xml_tag(tokenizer)
      [] Called("next_ie_xml_content") -> scan_ie_xml_content(tokenizer)
      [] OTHER -> scan_ie_div(tokenizer, TRUE)

C12_PreviousIsOldCurrent ==
    [][/\ call'.scan = "ok" =>
            /\ previous_token' = token
            /\ \E sc \in C12_ModeScans :
                  ~sc.failed /\ token' = sc.token /\ tokenizer' = Scanned(tokenizer, sc)
       /\ call'.scan = "none" => UNCHANGED previous_token]_vars

C12_Witness ==
    /\ call.op = "next_ie_xml_tag"
    /\ call.scan = "ok"
    /\ call.on = Gt
    /\ previous_token = <<Gt, [line |-> 1, first_offset |-> 1, last_offset |-> 2]>>
    /\ token[1] = XmlName("a")

(***************************************************************************)
(* C13: an advance whose scan fails is not atomic: the call returns parse  *)
(* failure, current keeps the value it had and previous is overwritten     *)
(* with that value, so previous = current afterwards; the parser adds no   *)
(* diagnostic for the failure.  consume, expect, the identifier and        *)
(* context keyword primitives and expect_generics_gt on a lone `>` all     *)
(* advance through that step: facing a token they match, their effect on   *)
(* the parser is that of next(true) under some outcome of the scan, a      *)
(* failing one included.                                                   *)
(***************************************************************************)
\* The token the step's call faces is one the called operation matches.
C13_Matches ==
    \/ (Called("consume") \/ Called("expect")) /\ token[1] = call'.arg.token
    \/ C11_Called /\ C11_Accepts
    \/ (Called("consume_context_keyword") \/ Called("expect_context_keyword"))
          /\ token[1] = Identifier(call'.arg.name)
    \/ Called("expect_generics_gt") /\ token[1] = Gt

C13_FailedAdvanceStep ==
    /\ call'.scan = "failed" =>
          /\ call'.result = ParserFailure
          /\ token' = token
          /\ previous_token' = token
          /\ UNCHANGED diagnostics
    /\ C13_Matches =>
          /\ call'.scan # "none"
          /\ \E sc \in scan_ie_div(tokenizer, TRUE) :
                /\ Parser' = next(Parser, TRUE, sc).parser
                /\ sc.failed <=> call'.scan = "failed"

C13_FailedAdvance ==
    /\ [][C13_FailedAdvanceStep]_vars
    /\ [](call.scan = "failed" => previous_token = token /\ call.result = ParserFailure)

C13_Witness ==
    /\ call.op = "consume"
    /\ call.arg = TokenArg(Gt)
    /\ call.on = Gt
    /\ call.scan = "failed"
    /\ call.result = ParserFailure
    /\ previous_token = token
    /\ token[1] = Gt
    /\ diagnostics = <<>>

(***************************************************************************)
(* C14 as claimed: a freshly constructed parser has fetched no token, and  *)
(* until the first fetch previous and current are both Eof at line 1,      *)
(* offset 0.  So expect_eof called before any advance succeeds whatever    *)
(* the input is, writes no diagnostic and requests the first token from    *)
(* the tokenizer; expect_eof reports Expected(Eof, actual token) only when *)
(* current holds a fetched token other than Eof.                           *)
(***************************************************************************)
\* No token has been requested yet and both slots are as constructed.
C14_Fresh ==
    /\ tokenizer.scans = 0
    /\ previous_token = <<Eof, with_line_and_offset(1, 0)>>
    /\ token = <<Eof, with_line_and_offset(1, 0)>>

\* The parser is fresh from its construction until its first fetch.
C14_FreshUntilFetch ==
    /\ call.op = "new" => C14_Fresh /\ diagnostics = <<>>
    /\ tokenizer.scans = 0 => C14_Fresh

\* expect_eof facing a token other than Eof: the token was fetched, and the
\* call reports it.
C14_Reports ==
    /\ tokenizer.scans > 0
    /\ call'.result = ParserFailure
    /\ call'.scan = "none"
    /\ Reported(new_syntax_error(token[2], "Expected",
                   <<TokenArgument(Eof), TokenArgument(token[1])>>))
    /\ CursorUnchanged

C14_ExpectEofSucceeds ==
    /\ [](C14_FreshUntilFetch)
    /\ [][Called("expect_eof") =>
            IF token[1] = Eof
            THEN /\ UNCHANGED diagnostics
                 /\ tokenizer'.scans = tokenizer.scans + 1
                 /\ C14_Fresh => Advanced /\ call'.result = Ok
            ELSE C14_Reports]_vars

(***************************************************************************)
(* C14 as amended: a freshly constructed parser has fetched no token, and  *)
(* until the first fetch previous and current are both Eof at line 1,      *)
(* offset 0.  So expect_eof called before any advance passes its test      *)
(* whatever the input is, writes no diagnostic and requests the first      *)
(* token from the tokenizer: it succeeds if that scan succeeds and returns *)
(* parse failure if the scan fails.  expect_eof reports Expected(Eof,      *)
(* actual token) only when current holds a fetched token other than Eof.   *)
(***************************************************************************)
C14_ExpectEofFetches ==
    /\ [](C14_FreshUntilFetch)
    /\ [][Called("expect_eof") =>
            IF token[1] = Eof
            THEN /\ UNCHANGED diagnostics
                 /\ tokenizer'.scans = tokenizer.scans + 1
                 /\ \/ Advanced /\ call'.result = Ok
                    \/ AdvanceFailed
            ELSE C14_Reports]_vars

C14_Witness ==
    /\ call.op = "expect_eof"
    /\ call.on = Eof
    /\ call.result = Ok
    /\ tokenizer.scans = 1
    /\ previous_token = <<Eof, with_line_and_offset(1, 0)>>
    /\ token[1] = Identifier("get")
    /\ diagnostics = <<>>

TypeOK ==
    /\ tokenizer.scans \in 0..MaxScans
    /\ token[1] \in Token \cup XmlTagToken \cup XmlContentToken
    /\ previous_token[1] \in Token \cup XmlTagToken \cup XmlContentToken
    /\ Len(diagnostics) <= MaxDiag
====
